---- MODULE Spec2Model ----
(***************************************************************************)
(* Model of rpi-whatsapp-security-mate:                                    *)
(*   - slack_upload            (src/app/utils.py)   bounded retry          *)
(*   - spawn/check/kill        (src/app/utils.py)   process supervision    *)
(*   - PanTiltController       (src/app/pan_tilt_controller.py)            *)
(*   - test_pir_l_mode         (src/quick-pir-sensor-test.py)              *)
(* Each component has its own specification over its own variables; the    *)
(* variables of the other components stay at their initial values.         *)
(***************************************************************************)
EXTENDS Integers, Sequences, FiniteSets, TLC

VARIABLES
    \* ---- slack_upload ----
    up_pc,        \* "idle" | "attempt" | "sleep" | "done"
    attempt,      \* loop variable of `for attempt in range(max_retries)`
    up_log,       \* outcomes of the calls to files_upload_v2, in order
    up_sleeps,    \* durations passed to time.sleep, in order
    up_trace,     \* "a" (attempt) / "s" (sleep) in the order they happened
    up_result,    \* value returned by slack_upload (NoResult while running)
    \* ---- test_pir_l_mode ----
    pir_pc,         \* "start" | "calibrating" | "polling" | "exited"
    calib_i,        \* loop variable of the calibration countdown
    gpio_setup,     \* GPIO.setup(PIR_PIN, GPIO.IN) has been executed
    gpio_cleaned,   \* GPIO.cleanup() has been executed
    pir_exit,       \* how the program ended: "none" | "normal" | "KeyboardInterrupt"
    now,            \* the clock (time.time()), in seconds
    previous_state,
    motion_count,
    high_start,
    samples,        \* the samples read so far: [level, t]
    events,         \* what the loop printed so far, as events
    \* ---- spawn_python_process / check_process / kill_python_process ----
    procs,          \* pid -> "gone" | "running" | "zombie" (the process table)
    next_pid,       \* the pid the next successfully launched child gets
    ps_pc,          \* "idle" | "chk_probe" | "chk_status" | "kill_signal" | "kill_sleep"
    ps_op,          \* the public operation called last ("none" before any)
    ps_arg,         \* its argument
    ps_entry,       \* state of the target process when it was called
    chk_caller,     \* who called check_process: "top" | "kill_first" | "kill_recheck"
    killed,         \* local variable of kill_python_process
    ps_trace,       \* steps of the current call, in order
    ps_slept,       \* seconds slept by the current call
    ps_ret,         \* outcome of the last finished call
    \* ---- PanTiltController ----
    HPulse,         \* self.HPulse
    VPulse,         \* self.VPulse
    HStep,          \* self.HStep
    VStep,          \* self.VStep
    pwm_on,         \* the PCA9685 output is running (start_PCA9685 / exit_PCA9685)
    last_call,      \* the method called last and its arguments
    pt_calls,       \* number of method calls since construction
    pan80_run,      \* -1, or k when the calls so far end with set_pan(80)
                    \* followed by k calls move_relative(pan_delta=20)
    raw_pulse,      \* local `pulse` of the setter run last, before clamping
    \* ---- redis_set / redis_get ----
    redis_store,    \* REDIS_CONN: key -> the text stored (Missing when absent)
    rd_written,     \* key -> the value last passed to redis_set (NoValue when none)
    rd_last,        \* the call made last: [op, key, result]
    \* ---- a second process that imported utils ----
    peer_HPulse,    \* HPulse of that process's own `pan_tilt` instance
    peer_VPulse,    \* VPulse of that process's own `pan_tilt` instance
    peer_read       \* its last utils.get_pan / utils.get_tilt: [op, result, at]

upVars == <<up_pc, attempt, up_log, up_sleeps, up_trace, up_result>>
psVars == <<procs, next_pid, ps_pc, ps_op, ps_arg, ps_entry, chk_caller,
            killed, ps_trace, ps_slept, ps_ret>>
pirVars == <<pir_pc, calib_i, gpio_setup, gpio_cleaned, pir_exit, now,
             previous_state, motion_count, high_start, samples, events>>
ptVars == <<HPulse, VPulse, HStep, VStep, pwm_on, last_call, pt_calls, pan80_run,
            raw_pulse>>

rdVars == <<redis_store, rd_written, rd_last>>
peerVars == <<peer_HPulse, peer_VPulse, peer_read>>

vars == <<upVars, pirVars, psVars, ptVars, rdVars, peerVars>>

\* What a step of one component leaves alone: the other components.
notUp == <<pirVars, psVars, ptVars, rdVars, peerVars>>
notPir == <<upVars, psVars, ptVars, rdVars, peerVars>>
notPs == <<upVars, pirVars, ptVars, rdVars, peerVars>>
notPt == <<upVars, pirVars, psVars, rdVars, peerVars>>
notRd == <<upVars, pirVars, psVars, ptVars, peerVars>>
notPeer == <<upVars, pirVars, psVars, ptVars, rdVars>>

\* Python's None where the program otherwise holds a number (a pid, a time);
\* pids start at 1 and the clock is read only after it was stored.
None == 0
NoResult == [kind |-> "none"]

(***************************************************************************)
(* slack_upload                                                            *)
(***************************************************************************)
max_retries == 3
retry_delay == 2

\* Error texts an attempt can fail with (e.response['error'] or str(e)).
ErrorTexts == {"e1", "e2", "e3"}

\* What one call of slack_client.files_upload_v2 can do: return a response,
\* raise SlackApiError (the endpoint answered with an error: the handler
\* reads e.response['error']), or raise any other Exception (the call itself
\* failed).  The client validates every response, so an answer that is not
\* ok arrives as SlackApiError and a returned response is returned as is.
UploadOutcomes ==
    {[kind |-> "response"]}
      \cup [kind : {"SlackApiError", "Exception"}, error : ErrorTexts]

FailureResult(e) == [kind |-> "dict", ok |-> FALSE, error |-> e]
ResponseResult == [kind |-> "response", ok |-> TRUE]
AllFailedText == "All retry attempts failed"

ApiLastAttempt_offByOne(a) == a = max_retries

\* `if attempt == max_retries - 1` in the SlackApiError handler
ApiLastAttempt(a) == a = max_retries - 1
\* `if attempt == max_retries - 1` in the generic Exception handler
NetLastAttempt(a) == a = max_retries - 1

OnSlackApiError_noRetry(a, e) ==
    [ret |-> TRUE, result |-> FailureResult(e), delay |-> 0]

\* except SlackApiError as e: return on the last attempt, else sleep
OnSlackApiError(a, e) ==
    IF ApiLastAttempt(a)
      THEN [ret |-> TRUE, result |-> FailureResult(e), delay |-> 0]
      ELSE [ret |-> FALSE, result |-> NoResult, delay |-> retry_delay]

\* except Exception as e: return on the last attempt, else sleep
OnException(a, e) ==
    IF NetLastAttempt(a)
      THEN [ret |-> TRUE, result |-> FailureResult(e), delay |-> 0]
      ELSE [ret |-> FALSE, result |-> NoResult, delay |-> retry_delay]

\* The handler that an outcome of files_upload_v2 selects.
Handle(a, out) ==
    CASE out.kind = "response"      -> [ret |-> TRUE, result |-> ResponseResult, delay |-> 0]
      [] out.kind = "SlackApiError" -> OnSlackApiError(a, out.error)
      [] out.kind = "Exception"     -> OnException(a, out.error)

UploadInit ==
    /\ up_pc = "idle"
    /\ attempt = 0
    /\ up_log = <<>>
    /\ up_sleeps = <<>>
    /\ up_trace = <<>>
    /\ up_result = NoResult

\* slack_upload is called: the loop starts with attempt = 0.
slack_upload ==
    /\ up_pc \in {"idle", "done"}
    /\ up_pc' = "attempt"
    /\ attempt' = 0
    /\ up_log' = <<>>
    /\ up_sleeps' = <<>>
    /\ up_trace' = <<>>
    /\ up_result' = NoResult
    /\ UNCHANGED notUp

\* One iteration of the loop body: the call, and on a failure the handler,
\* which either returns or enters time.sleep.
UploadAttempt ==
    /\ up_pc = "attempt"
    /\ \E out \in UploadOutcomes :
         LET h == Handle(attempt, out) IN
           /\ up_log' = Append(up_log, out)
           /\ IF h.ret
                THEN /\ up_pc' = "done"
                     /\ up_result' = h.result
                     /\ up_sleeps' = up_sleeps
                     /\ up_trace' = Append(up_trace, "a")
                ELSE /\ up_pc' = "sleep"
                     /\ up_result' = up_result
                     /\ up_sleeps' = Append(up_sleeps, h.delay)
                     /\ up_trace' = up_trace \o <<"a", "s">>
    /\ UNCHANGED attempt
    /\ UNCHANGED notUp

\* time.sleep(retry_delay) returns and the for loop advances; when the
\* range is exhausted the function falls through to the final return.
UploadSleep ==
    /\ up_pc = "sleep"
    /\ attempt' = attempt + 1
    /\ IF attempt + 1 < max_retries
         THEN /\ up_pc' = "attempt"
              /\ up_result' = up_result
         ELSE /\ up_pc' = "done"
              /\ up_result' = FailureResult(AllFailedText)
    /\ UNCHANGED <<up_log, up_sleeps, up_trace>>
    /\ UNCHANGED notUp

UploadNext == slack_upload \/ UploadAttempt \/ UploadSleep

(***************************************************************************)
(* test_pir_l_mode (quick-pir-sensor-test.py)                              *)
(***************************************************************************)
MaxSamples == 5              \* number of polled samples explored
TimeSteps == {1, 5, 6}       \* seconds that can pass between two samples
CalibrationRounds == 12
CalibrationSleep == 5
WarnThreshold == 10

RisingEdge_levelTriggered(cur, prev) == cur = 1

\* `if current_state == 1 and previous_state == 0`
RisingEdge(cur, prev) == cur = 1 /\ prev = 0

FallingEdge_levelTriggered(cur, prev) == cur = 0

\* `elif current_state == 0 and previous_state == 1`
FallingEdge(cur, prev) == cur = 0 /\ prev = 1

PulseTooLong_inclusive(d) == d >= WarnThreshold

\* `if high_duration > 10`
PulseTooLong(d) == d > WarnThreshold

MotionStarted(t, n) == [type |-> "MotionStarted", t |-> t, n |-> n, duration |-> 0]
MotionEnded(t, d) == [type |-> "MotionEnded", t |-> t, n |-> 0, duration |-> d]
CalibrationWarning(t) == [type |-> "CalibrationWarning", t |-> t, n |-> 0, duration |-> 0]

PirInit ==
    /\ pir_pc = "start"
    /\ calib_i = CalibrationRounds
    /\ gpio_setup = FALSE
    /\ gpio_cleaned = FALSE
    /\ pir_exit = "none"
    /\ now = 0
    /\ previous_state = 0
    /\ motion_count = 0
    /\ high_start = None
    /\ samples = <<>>
    /\ events = <<>>

\* GPIO.setmode / GPIO.setup, then the countdown starts.
PirSetup ==
    /\ pir_pc = "start"
    /\ gpio_setup' = TRUE
    /\ calib_i' = CalibrationRounds
    /\ pir_pc' = "calibrating"
    /\ UNCHANGED <<gpio_cleaned, pir_exit, now, previous_state, motion_count,
                   high_start, samples, events>>
    /\ UNCHANGED notPir

\* One round of `for i in range(12, 0, -1): ... time.sleep(5)`; after the
\* last round motion_count, previous_state and high_start are initialised.
PirCalibrate ==
    /\ pir_pc = "calibrating"
    /\ now' = now + CalibrationSleep
    /\ IF calib_i > 1
         THEN /\ calib_i' = calib_i - 1
              /\ pir_pc' = "calibrating"
              /\ UNCHANGED <<previous_state, motion_count, high_start>>
         ELSE /\ calib_i' = calib_i
              /\ pir_pc' = "polling"
              /\ motion_count' = 0
              /\ previous_state' = 0
              /\ high_start' = None
    /\ UNCHANGED <<gpio_setup, gpio_cleaned, pir_exit, samples, events>>
    /\ UNCHANGED notPir

\* One iteration of `while True`: read the pin, act on an edge, sleep.
PirPoll ==
    /\ pir_pc = "polling"
    /\ Len(samples) < MaxSamples
    /\ \E current_state \in {0, 1}, dt \in TimeSteps :
         /\ samples' = Append(samples, [level |-> current_state, t |-> now])
         /\ IF RisingEdge(current_state, previous_state)
              THEN /\ motion_count' = motion_count + 1
                   /\ high_start' = now
                   /\ events' = Append(events, MotionStarted(now, motion_count + 1))
                   /\ previous_state' = 1
              ELSE IF FallingEdge(current_state, previous_state)
                THEN LET high_duration == now - high_start IN
                       /\ events' = events \o <<MotionEnded(now, high_duration)>>
                                      \o (IF PulseTooLong(high_duration)
                                            THEN <<CalibrationWarning(now)>>
                                            ELSE <<>>)
                       /\ previous_state' = 0
                       /\ UNCHANGED <<motion_count, high_start>>
                ELSE UNCHANGED <<motion_count, high_start, events, previous_state>>
         /\ now' = now + dt
    /\ UNCHANGED <<pir_pc, calib_i, gpio_setup, gpio_cleaned, pir_exit>>
    /\ UNCHANGED notPir

\* CTRL+C.  The countdown runs outside the try statement, so there the
\* interrupt propagates; inside the loop it is caught and the finally
\* clause runs GPIO.cleanup().
PirKeyboardInterrupt ==
    /\ pir_pc \in {"calibrating", "polling"}
    /\ pir_pc' = "exited"
    /\ IF pir_pc = "polling"
         THEN /\ gpio_cleaned' = TRUE
              /\ pir_exit' = "normal"
         ELSE /\ gpio_cleaned' = gpio_cleaned
              /\ pir_exit' = "KeyboardInterrupt"
    /\ UNCHANGED <<calib_i, gpio_setup, now, previous_state, motion_count,
                   high_start, samples, events>>
    /\ UNCHANGED notPir

PirNext == PirSetup \/ PirCalibrate \/ PirPoll \/ PirKeyboardInterrupt

(***************************************************************************)
(* spawn_python_process, check_process, kill_python_process                *)
(***************************************************************************)
MaxPids == 2                 \* pids the process table can hold
GracePeriod == 2

Pids == 1..MaxPids
PidArgs == Pids \cup {None}

NoRet == [kind |-> "none", value |-> None]
Returned(v) == [kind |-> "value", value |-> v]
Raised(exc) == [kind |-> "raise", value |-> exc]

ProcState(p) == IF p = None THEN "gone" ELSE procs[p]

\* os.kill(pid, 0): a pid that is not an integer is a TypeError, a pid that
\* is in no process table entry an OSError (ProcessLookupError); a zombie
\* still accepts signals.
ProbeOutcome(p, st) ==
    IF p = None THEN "TypeError"
    ELSE IF st = "gone" THEN "OSError"
    ELSE "ok"

StatusOutcome_zombieRunning(st) ==
    CASE st = "gone"    -> "NoSuchProcess"
      [] st = "zombie"  -> "True"
      [] st = "running" -> "True"

\* psutil.Process(pid) / proc.status() == psutil.STATUS_ZOMBIE
StatusOutcome(st) ==
    CASE st = "gone"    -> "NoSuchProcess"
      [] st = "zombie"  -> "False"
      [] st = "running" -> "True"

\* `except OSError` of check_process: psutil.NoSuchProcess derives from
\* psutil.Error, which derives from Exception, not from OSError.
CaughtByCheck(exc) == exc = "OSError"

\* `except Exception` of kill_python_process
CaughtByKill(exc) == exc \in {"OSError", "TypeError", "NoSuchProcess"}

\* os.kill(pid, signal.SIGKILL)
SigkillOutcome(st) == IF st = "gone" THEN "OSError" ELSE "ok"

\* `if check_process(pid):` of kill_python_process, first check
SendsKill(status) == status = TRUE

\* `if not status: killed = True` after the grace period
KilledAfterRecheck(status) == status = FALSE

SupInit ==
    /\ procs = [p \in Pids |-> "gone"]
    /\ next_pid = 1
    /\ ps_pc = "idle"
    /\ ps_op = "none"
    /\ ps_arg = None
    /\ ps_entry = "gone"
    /\ chk_caller = "top"
    /\ killed = FALSE
    /\ ps_trace = <<>>
    /\ ps_slept = 0
    /\ ps_ret = NoRet

\* What subprocess.Popen can do: launch a child or raise.
PopenErrors == {"OSError", "ValueError"}

CaughtBySpawn_onlyOSError(exc) == exc = "OSError"

\* `except Exception as exc` of spawn_python_process
CaughtBySpawn(exc) == exc \in {"OSError", "ValueError"}

\* The outcome of spawn_python_process: pid is None unless Popen returned.
SpawnResult(outcome, child) ==
    IF outcome = "ok" THEN Returned(child)
    ELSE IF CaughtBySpawn(outcome) THEN Returned(None)
    ELSE Raised(outcome)

\* spawn_python_process(fname): subprocess.Popen either launches a child,
\* whose pid is returned, or raises, which is logged and leaves pid = None.
\* The Popen handle is dropped: nothing here waits for the child.
spawn_python_process ==
    /\ ps_pc = "idle"
    /\ ps_op' = "spawn_python_process"
    /\ ps_arg' = None
    /\ ps_entry' = "gone"
    /\ ps_slept' = 0
    /\ \E outcome \in (IF next_pid <= MaxPids THEN {"ok"} ELSE {}) \cup PopenErrors :
         /\ ps_trace' = <<"Popen:" \o outcome>>
         /\ ps_ret' = SpawnResult(outcome, next_pid)
         /\ IF outcome = "ok"
              THEN /\ procs' = [procs EXCEPT ![next_pid] = "running"]
                   /\ next_pid' = next_pid + 1
              ELSE UNCHANGED <<procs, next_pid>>
    /\ UNCHANGED <<ps_pc, chk_caller, killed>>
    /\ UNCHANGED notPs

\* check_process(pid) is called by the program.
CallCheck ==
    /\ ps_pc = "idle"
    /\ \E p \in PidArgs :
         /\ ps_arg' = p
         /\ ps_entry' = ProcState(p)
    /\ ps_op' = "check_process"
    /\ ps_pc' = "chk_probe"
    /\ chk_caller' = "top"
    /\ ps_trace' = <<>>
    /\ ps_slept' = 0
    /\ ps_ret' = NoRet
    /\ UNCHANGED <<procs, next_pid, killed>>
    /\ UNCHANGED notPs

\* kill_python_process(pid) is called: killed = False, then the first
\* check_process(pid) inside the try statement.
CallKill ==
    /\ ps_pc = "idle"
    /\ \E p \in PidArgs :
         /\ ps_arg' = p
         /\ ps_entry' = ProcState(p)
    /\ ps_op' = "kill_python_process"
    /\ killed' = FALSE
    /\ ps_pc' = "chk_probe"
    /\ chk_caller' = "kill_first"
    /\ ps_trace' = <<>>
    /\ ps_slept' = 0
    /\ ps_ret' = NoRet
    /\ UNCHANGED <<procs, next_pid>>
    /\ UNCHANGED notPs

\* check_process has finished with `res`; control goes back to its caller.
CheckFinish(res, tr) ==
    CASE chk_caller = "top" ->
           /\ ps_pc' = "idle"
           /\ ps_ret' = res
           /\ ps_trace' = tr
           /\ UNCHANGED <<killed, chk_caller>>
      [] chk_caller = "kill_first" ->
           IF res.kind = "raise"
             THEN \* an exception that check_process let through
                  /\ ps_trace' = tr
                  /\ IF CaughtByKill(res.value)
                       THEN ps_ret' = Returned(killed)
                       ELSE ps_ret' = res
                  /\ ps_pc' = "idle"
                  /\ UNCHANGED <<killed, chk_caller>>
             ELSE IF SendsKill(res.value)
               THEN /\ ps_pc' = "kill_signal"
                    /\ ps_trace' = tr
                    /\ UNCHANGED <<killed, chk_caller, ps_ret>>
               ELSE /\ killed' = TRUE
                    /\ ps_ret' = Returned(TRUE)
                    /\ ps_pc' = "idle"
                    /\ ps_trace' = tr
                    /\ UNCHANGED chk_caller
      [] chk_caller = "kill_recheck" ->
           /\ ps_pc' = "idle"
           /\ ps_trace' = tr
           /\ UNCHANGED chk_caller
           /\ IF res.kind = "raise"
                THEN /\ IF CaughtByKill(res.value)
                          THEN ps_ret' = Returned(killed)
                          ELSE ps_ret' = res
                     /\ UNCHANGED killed
                ELSE /\ killed' = KilledAfterRecheck(res.value)
                     /\ ps_ret' = Returned(KilledAfterRecheck(res.value))

\* os.kill(pid, 0) inside check_process
ChkProbe ==
    /\ ps_pc = "chk_probe"
    /\ LET o == ProbeOutcome(ps_arg, ProcState(ps_arg)) IN
         IF o = "ok"
           THEN /\ ps_pc' = "chk_status"
                /\ ps_trace' = Append(ps_trace, "probe")
                /\ UNCHANGED <<killed, chk_caller, ps_ret>>
           ELSE IF CaughtByCheck(o)
             THEN CheckFinish(Returned(FALSE), ps_trace \o <<"probe", "check:False">>)
             ELSE CheckFinish(Raised(o), ps_trace \o <<"probe", "check:raise">>)
    /\ UNCHANGED <<procs, next_pid, ps_op, ps_arg, ps_entry, ps_slept>>
    /\ UNCHANGED notPs

\* psutil.Process(pid) and proc.status() inside check_process
ChkStatus ==
    /\ ps_pc = "chk_status"
    /\ LET o == StatusOutcome(ProcState(ps_arg)) IN
         IF o = "True"
           THEN CheckFinish(Returned(TRUE), ps_trace \o <<"status", "check:True">>)
           ELSE IF o = "False" \/ CaughtByCheck(o)
             THEN CheckFinish(Returned(FALSE), ps_trace \o <<"status", "check:False">>)
             ELSE CheckFinish(Raised(o), ps_trace \o <<"status", "check:raise">>)
    /\ UNCHANGED <<procs, next_pid, ps_op, ps_arg, ps_entry, ps_slept>>
    /\ UNCHANGED notPs

\* os.kill(pid, signal.SIGKILL) inside kill_python_process.  A running
\* process dies (and stays in the table as a zombie until its parent reaps
\* it) unless it is in uninterruptible sleep, in which case it stays
\* running for now.
KillSignal ==
    /\ ps_pc = "kill_signal"
    /\ LET o == SigkillOutcome(ProcState(ps_arg)) IN
         IF o = "ok"
           THEN /\ ps_trace' = Append(ps_trace, "SIGKILL")
                /\ ps_pc' = "kill_sleep"
                /\ IF procs[ps_arg] = "running"
                     THEN \E st \in {"running", "zombie"} :
                            procs' = [procs EXCEPT ![ps_arg] = st]
                     ELSE procs' = procs
                /\ UNCHANGED ps_ret
           ELSE /\ ps_trace' = Append(ps_trace, "SIGKILL:raise")
                /\ ps_pc' = "idle"
                /\ IF CaughtByKill(o)
                     THEN ps_ret' = Returned(killed)
                     ELSE ps_ret' = Raised(o)
                /\ procs' = procs
    /\ UNCHANGED <<next_pid, ps_op, ps_arg, ps_entry, chk_caller, killed, ps_slept>>
    /\ UNCHANGED notPs

\* time.sleep(2), then the second check_process(pid)
KillSleep ==
    /\ ps_pc = "kill_sleep"
    /\ ps_trace' = Append(ps_trace, "sleep")
    /\ ps_slept' = ps_slept + GracePeriod
    /\ ps_pc' = "chk_probe"
    /\ chk_caller' = "kill_recheck"
    /\ UNCHANGED <<procs, next_pid, ps_op, ps_arg, ps_entry, killed, ps_ret>>
    /\ UNCHANGED notPs

\* The environment: a running process exits by itself ...
ProcExit ==
    /\ \E p \in Pids :
         /\ procs[p] = "running"
         /\ procs' = [procs EXCEPT ![p] = "zombie"]
    /\ UNCHANGED <<next_pid, ps_pc, ps_op, ps_arg, ps_entry, chk_caller,
                   killed, ps_trace, ps_slept, ps_ret>>
    /\ UNCHANGED notPs

\* ... and a zombie is reaped by its parent and leaves the process table.
ProcReap ==
    /\ \E p \in Pids :
         /\ procs[p] = "zombie"
         /\ procs' = [procs EXCEPT ![p] = "gone"]
    /\ UNCHANGED <<next_pid, ps_pc, ps_op, ps_arg, ps_entry, chk_caller,
                   killed, ps_trace, ps_slept, ps_ret>>
    /\ UNCHANGED notPs

SupNext ==
    \/ spawn_python_process \/ CallCheck \/ CallKill
    \/ ChkProbe \/ ChkStatus \/ KillSignal \/ KillSleep
    \/ ProcExit \/ ProcReap

(***************************************************************************)
(* PanTiltController (pan_tilt_controller.py)                              *)
(***************************************************************************)
MaxCalls == 4                \* method calls explored in SpecPanTilt
MaxServoCalls == 1           \* method calls explored in SpecServo
MaxRun == 3                  \* pan80_run stops counting here

MinPulse == 500
MaxPulse == 2500
CenterPulse == 1500
MinAngle == -90
MaxAngle == 90

Max(a, b) == IF a >= b THEN a ELSE b
Min(a, b) == IF a <= b THEN a ELSE b
Abs(a) == IF a >= 0 THEN a ELSE -a

\* int(x) of Python for x = a / b with b > 0: truncation toward zero
TruncDiv(a, b) == IF a >= 0 THEN a \div b ELSE -((-a) \div b)

PulseOf_floor(angle) == (CenterPulse * 90 + angle * 1000) \div 90

\* `pulse = int(1500 + (angle * 1000 / 90))`
PulseOf(angle) == TruncDiv(CenterPulse * 90 + angle * 1000, 90)

ClampPulse_noUpper(pulse) == IF pulse < 500 THEN 500 ELSE pulse

ClampPulse_noLower(pulse) == IF pulse > 2500 THEN 2500 ELSE pulse

\* `pulse = max(500, min(2500, pulse))`
ClampPulse(pulse) == Max(MinPulse, Min(MaxPulse, pulse))

AngleOf_divideFirst(pulse) ==
    (IF pulse >= 1500 THEN (pulse - 1500) \div 1000
                      ELSE -((1500 - pulse) \div 1000)) * 90

\* `int((self.HPulse - 1500) * 90 / 1000)`
AngleOf(pulse) == TruncDiv((pulse - CenterPulse) * 90, 1000)

\* `max(-90, min(90, new_pan))` of move_relative
ClampAngle(angle) == Max(MinAngle, Min(MaxAngle, angle))

get_pan == AngleOf(HPulse)
get_tilt == AngleOf(VPulse)

\* The pulse an absolute setter stores for `angle`.
SetPulse(angle) == ClampPulse(PulseOf(angle))

MovePulse_absolute(pulse, delta) ==
    IF delta # 0
      THEN (LET a == IF delta > 90 THEN 90 ELSE IF delta < -90 THEN -90 ELSE delta
                p == (135000 + a * 1000) \div 90
            IN  IF p > 2500 THEN 2500 ELSE IF p < 500 THEN 500 ELSE p)
      ELSE pulse

\* The pulse move_relative stores for an axis at `pulse` and a delta.
MovePulse(pulse, delta) ==
    IF delta # 0 THEN SetPulse(ClampAngle(AngleOf(pulse) + delta)) ELSE pulse

\* Arguments explored.  SpecServo calls the setters with every angle of
\* ServoAngles; SpecPanTilt explores sequences of calls over SeqAngles.
ServoAngles == (-95..95) \cup {-400, 200}
SeqAngles == {-400, -91, -90, -1, 0, 1, 80, 90, 91, 200}
SeqDeltas == {-20, -1, 0, 1, 20}

Call(op, a, b) == [op |-> op, a |-> a, b |-> b]

\* `self.HPulse = 1500  # Horizontal servo initial pulse`
InitialHPulse == 1500

InitialVPulse_centered == CenterPulse

\* `self.VPulse = 1000  # Vertical servo initial pulse`
InitialVPulse == 1000

PanTiltInit ==
    /\ HPulse = InitialHPulse
    /\ VPulse = InitialVPulse
    /\ HStep = 0
    /\ VStep = 0
    /\ pwm_on = TRUE
    /\ last_call = Call("__init__", 0, 0)
    /\ pt_calls = 0
    /\ pan80_run = -1
    /\ raw_pulse = 0

set_pan(Angles, bound) ==
    /\ pt_calls < bound
    /\ \E angle \in Angles :
         /\ HPulse' = SetPulse(angle)
         /\ raw_pulse' = PulseOf(angle)
         /\ last_call' = Call("set_pan", angle, 0)
         /\ pan80_run' = IF angle = 80 THEN 0 ELSE -1
    /\ pwm_on' = TRUE
    /\ pt_calls' = pt_calls + 1
    /\ UNCHANGED <<VPulse, HStep, VStep>>
    /\ UNCHANGED notPt

set_tilt(Angles, bound) ==
    /\ pt_calls < bound
    /\ \E angle \in Angles :
         /\ VPulse' = SetPulse(angle)
         /\ raw_pulse' = PulseOf(angle)
         /\ last_call' = Call("set_tilt", angle, 0)
    /\ pwm_on' = TRUE
    /\ pan80_run' = -1
    /\ pt_calls' = pt_calls + 1
    /\ UNCHANGED <<HPulse, HStep, VStep>>
    /\ UNCHANGED notPt

move_relative(Deltas, bound) ==
    /\ pt_calls < bound
    /\ \E pan_delta \in Deltas, tilt_delta \in Deltas :
         /\ HPulse' = MovePulse(HPulse, pan_delta)
         /\ VPulse' = MovePulse(VPulse, tilt_delta)
         /\ raw_pulse' = IF tilt_delta # 0
                            THEN PulseOf(ClampAngle(get_tilt + tilt_delta))
                          ELSE IF pan_delta # 0
                            THEN PulseOf(ClampAngle(get_pan + pan_delta))
                          ELSE raw_pulse
         /\ pwm_on' = IF pan_delta # 0 \/ tilt_delta # 0 THEN TRUE ELSE pwm_on
         /\ last_call' = Call("move_relative", pan_delta, tilt_delta)
         /\ pan80_run' = IF pan80_run >= 0 /\ pan_delta = 20 /\ tilt_delta = 0
                           THEN Min(pan80_run + 1, MaxRun)
                           ELSE -1
    /\ pt_calls' = pt_calls + 1
    /\ UNCHANGED <<HStep, VStep>>
    /\ UNCHANGED notPt

stop(bound) ==
    /\ pt_calls < bound
    /\ HStep' = 0
    /\ VStep' = 0
    /\ pwm_on' = FALSE
    /\ last_call' = Call("stop", 0, 0)
    /\ pan80_run' = -1
    /\ pt_calls' = pt_calls + 1
    /\ UNCHANGED <<HPulse, VPulse, raw_pulse>>
    /\ UNCHANGED notPt

cleanup(bound) ==
    /\ pt_calls < bound
    /\ pwm_on' = FALSE
    /\ last_call' = Call("cleanup", 0, 0)
    /\ pan80_run' = -1
    /\ pt_calls' = pt_calls + 1
    /\ UNCHANGED <<HPulse, VPulse, HStep, VStep, raw_pulse>>
    /\ UNCHANGED notPt

PanTiltNext ==
    \/ set_pan(SeqAngles, MaxCalls) \/ set_tilt(SeqAngles, MaxCalls)
    \/ move_relative(SeqDeltas, MaxCalls)
    \/ stop(MaxCalls) \/ cleanup(MaxCalls)

ServoNext ==
    \/ set_pan(ServoAngles, MaxServoCalls) \/ set_tilt(ServoAngles, MaxServoCalls)

(***************************************************************************)
(* redis_set, redis_get (utils.py).  Texts are sequences of characters.    *)
(***************************************************************************)
Keys == {"k1", "k2"}
Missing == <<"<", "n", "i", "l", ">">>      \* REDIS_CONN.get returns None

\* Python values: kind, and the payload in the field of that kind.  A float
\* is held as its repr, which float() maps back to the same float.
BoolV(b) == [kind |-> "Bool", b |-> b, n |-> 0, s |-> <<>>]
IntV(n) == [kind |-> "Int", b |-> FALSE, n |-> n, s |-> <<>>]
FloatV(s) == [kind |-> "Float", b |-> FALSE, n |-> 0, s |-> s]
StrV(s) == [kind |-> "Str", b |-> FALSE, n |-> 0, s |-> s]
NoneV == [kind |-> "None", b |-> FALSE, n |-> 0, s |-> <<>>]
NoValue == [kind |-> "unset", b |-> FALSE, n |-> 0, s |-> <<>>]

TrueText == <<"T", "r", "u", "e">>
FalseText == <<"F", "a", "l", "s", "e">>
NoneText == <<"N", "o", "n", "e">>

DigitChars == <<"0", "1", "2", "3", "4", "5", "6", "7", "8", "9">>
IsDigit(c) == \E d \in 1..10 : DigitChars[d] = c
DigitValue(c) == (CHOOSE d \in 1..10 : DigitChars[d] = c) - 1
IsDigits(t) == Len(t) >= 1 /\ \A i \in 1..Len(t) : IsDigit(t[i])

\* str(n) for an integer n
RECURSIVE DigitsOf(_)
DigitsOf(n) ==
    IF n < 10 THEN <<DigitChars[n + 1]>>
    ELSE Append(DigitsOf(n \div 10), DigitChars[(n % 10) + 1])
StrOfInt(n) == IF n < 0 THEN <<"-">> \o DigitsOf(-n) ELSE DigitsOf(n)

\* int(t) for a text of digits
RECURSIVE NumberOf(_)
NumberOf(t) ==
    IF Len(t) = 0 THEN 0
    ELSE 10 * NumberOf(SubSeq(t, 1, Len(t) - 1)) + DigitValue(t[Len(t)])

\* str(value) of `if isinstance(value, bool): value = str(value)`
StrOfBool(b) == IF b THEN TrueText ELSE FalseText

\* redis_set: a bool becomes its str first; REDIS_CONN.set then encodes a
\* str as it is, an int by str() and a float by repr().
Serialize(v) ==
    CASE v.kind = "Bool"  -> StrOfBool(v.b)
      [] v.kind = "Int"   -> StrOfInt(v.n)
      [] v.kind = "Float" -> v.s
      [] v.kind = "Str"   -> v.s

\* ast.literal_eval strips blanks around the expression.
RECURSIVE StripLeft(_)
StripLeft(t) == IF Len(t) > 0 /\ t[1] = " " THEN StripLeft(Tail(t)) ELSE t
RECURSIVE StripRight(_)
StripRight(t) ==
    IF Len(t) > 0 /\ t[Len(t)] = " " THEN StripRight(SubSeq(t, 1, Len(t) - 1)) ELSE t
Strip(t) == StripRight(StripLeft(t))

HasSign(t) == Len(t) >= 1 /\ t[1] \in {"-", "+"}
Unsigned(t) == IF HasSign(t) THEN Tail(t) ELSE t
Signed(t, n) == IF HasSign(t) /\ t[1] = "-" THEN -n ELSE n

\* A decimal integer literal: digits, without a leading zero unless it is 0.
IsIntLiteral(t) ==
    LET u == Unsigned(t) IN
      IsDigits(u) /\ (u[1] # "0" \/ \A i \in 1..Len(u) : u[i] = "0")

DotAt(t) == {i \in 1..Len(t) : t[i] = "."}
\* A float literal: digits "." digits, one of the two parts may be empty.
IsFloatLiteral(t) ==
    LET u == Unsigned(t) IN
      /\ Cardinality(DotAt(u)) = 1
      /\ Len(u) >= 2
      /\ \A i \in 1..Len(u) : i \in DotAt(u) \/ IsDigit(u[i])

\* repr(float(t)) for a float literal: no redundant zeros, no plus sign.
RECURSIVE DropTrailingZeros(_)
DropTrailingZeros(t) ==
    IF Len(t) >= 2 /\ t[Len(t)] = "0" /\ t[Len(t) - 1] # "."
      THEN DropTrailingZeros(SubSeq(t, 1, Len(t) - 1))
      ELSE t
ReprOfFloatLiteral(t) ==
    LET u == Unsigned(t)
        w == IF u[1] = "." THEN <<"0">> \o u ELSE u
        x == IF w[Len(w)] = "." THEN Append(w, "0") ELSE w
        y == DropTrailingZeros(x)
    IN  IF HasSign(t) /\ t[1] = "-" THEN <<"-">> \o y ELSE y

QuoteChars == {"'", "\""}
IsQuoted(t) ==
    /\ Len(t) >= 2
    /\ t[1] \in QuoteChars
    /\ t[Len(t)] = t[1]
    /\ \A i \in 2..(Len(t) - 1) : t[i] \notin QuoteChars /\ t[i] # "\\"

\* ast.literal_eval(str_obj): the value of a literal, or ValueError /
\* SyntaxError for a text that is not one.
LiteralEval(text) ==
    LET t == Strip(text) IN
      IF IsIntLiteral(t) THEN [raised |-> FALSE, value |-> IntV(Signed(t, NumberOf(Unsigned(t))))]
      ELSE IF IsFloatLiteral(t) THEN [raised |-> FALSE, value |-> FloatV(ReprOfFloatLiteral(t))]
      ELSE IF t = NoneText THEN [raised |-> FALSE, value |-> NoneV]
      ELSE IF t \in {TrueText, FalseText} THEN [raised |-> FALSE, value |-> BoolV(t = TrueText)]
      ELSE IF IsQuoted(t) THEN [raised |-> FALSE, value |-> StrV(SubSeq(t, 2, Len(t) - 1))]
      ELSE [raised |-> TRUE, value |-> NoneV]

\* `if str_obj in ('True', 'False'): return str_obj == 'True'`
IsBoolText(text) == text \in {TrueText, FalseText}

\* redis_get applied to what REDIS_CONN.get returned
Parse(text) ==
    IF text = Missing THEN NoneV
    ELSE IF IsBoolText(text) THEN BoolV(text = TrueText)
    ELSE LET r == LiteralEval(text) IN
           IF r.raised THEN StrV(text) ELSE r.value

\* The values stored by the program explored here.
StoredValues ==
    {BoolV(TRUE), BoolV(FALSE), IntV(0), IntV(42), IntV(-7),
     FloatV(<<"3", ".", "1", "4">>), FloatV(<<"-", "0", ".", "5">>),
     StrV(<<"h", "e", "l", "l", "o">>), StrV(<<"4", "2">>), StrV(TrueText),
     StrV(NoneText), StrV(<<"3", ".", "1", "4">>), StrV(<<"0", "0", "7">>),
     StrV(<<"'", "h", "i", "'">>), StrV(<<>>), StrV(<<" ", "4", "2">>)}

RedisInit ==
    /\ redis_store = [k \in Keys |-> Missing]
    /\ rd_written = [k \in Keys |-> NoValue]
    /\ rd_last = [op |-> "none", key |-> "k1", result |-> NoValue]

redis_set ==
    /\ \E key \in Keys, value \in StoredValues :
         /\ redis_store' = [redis_store EXCEPT ![key] = Serialize(value)]
         /\ rd_written' = [rd_written EXCEPT ![key] = value]
         /\ rd_last' = [op |-> "redis_set", key |-> key, result |-> NoneV]
    /\ UNCHANGED notRd

redis_get ==
    /\ \E key \in Keys :
         rd_last' = [op |-> "redis_get", key |-> key, result |-> Parse(redis_store[key])]
    /\ UNCHANGED <<redis_store, rd_written>>
    /\ UNCHANGED notRd

RedisNext == redis_set \/ redis_get

(***************************************************************************)
(* utils.get_pan / utils.get_tilt in a second process.  `pan_tilt =        *)
(* PanTiltController()` runs when utils is imported, so every process has  *)
(* its own instance; the controller's methods make no call on REDIS_CONN.  *)
(***************************************************************************)
MaxSharedCalls == 2          \* repositioning calls explored in SpecShared

PeerInit ==
    /\ peer_HPulse = InitialHPulse
    /\ peer_VPulse = InitialVPulse
    /\ peer_read = [op |-> "none", result |-> 0, at |-> 0]

\* utils.get_pan() in the second process: `return pan_tilt.get_pan()`
utils_get_pan ==
    /\ peer_read' = [op |-> "get_pan", result |-> AngleOf(peer_HPulse), at |-> pt_calls]
    /\ UNCHANGED <<peer_HPulse, peer_VPulse>>
    /\ UNCHANGED notPeer

\* utils.get_tilt() in the second process: `return pan_tilt.get_tilt()`
utils_get_tilt ==
    /\ peer_read' = [op |-> "get_tilt", result |-> AngleOf(peer_VPulse), at |-> pt_calls]
    /\ UNCHANGED <<peer_HPulse, peer_VPulse>>
    /\ UNCHANGED notPeer

\* One process repositions the mount, the other reads the position.
SharedNext ==
    \/ set_pan(SeqAngles, MaxSharedCalls) \/ set_tilt(SeqAngles, MaxSharedCalls)
    \/ move_relative(SeqDeltas, MaxSharedCalls)
    \/ utils_get_pan \/ utils_get_tilt

(***************************************************************************)
(* Properties                                                              *)
(***************************************************************************)
AllFailed == \A i \in 1..Len(up_log) : up_log[i].kind # "response"

\* C1: slack_upload makes at most 3 attempts, goes on only after a failed
\* attempt, sleeps the fixed delay exactly once between two consecutive
\* attempts and never after the last one; when all attempts fail it returns
\* after exactly 3 attempts and 2 delays with {'ok': False, 'error': e},
\* e being the error of the third attempt (a value, not an exception, and
\* not the generic text).
C1_BoundedRetry ==
    /\ Len(up_log) <= max_retries
    /\ \A i \in 1..(Len(up_log) - 1) : up_log[i].kind # "response"
    /\ \A i \in 1..Len(up_trace) : up_trace[i] = (IF i % 2 = 1 THEN "a" ELSE "s")
    /\ \A i \in 1..Len(up_sleeps) : up_sleeps[i] = retry_delay
    /\ up_pc = "attempt" => Len(up_sleeps) = Len(up_log)
    /\ up_pc = "done" =>
         /\ Len(up_log) >= 1
         /\ Len(up_sleeps) = Len(up_log) - 1
         /\ up_trace[Len(up_trace)] = "a"
         /\ up_result.kind \in {"response", "dict"}
         /\ AllFailed =>
              /\ Len(up_log) = 3
              /\ Len(up_sleeps) = 2
              /\ up_result = FailureResult(up_log[3].error)
              /\ up_result.error # AllFailedText

C1_Witness ==
    /\ up_pc = "done"
    /\ AllFailed
    /\ Len(up_log) = 3
    /\ up_log[1].error = "e1" /\ up_log[2].error = "e2" /\ up_log[3].error = "e3"
    /\ up_result = FailureResult("e3")

\* C2: a failed attempt is handled the same way whether the endpoint
\* answered with an error (SlackApiError) or the call itself raised: while
\* the budget of 3 is not exhausted, the fixed delay follows it and the loop
\* goes on; no failed attempt ends the loop early.
C2_FailuresRetriedAlike ==
    \A i \in 1..Len(up_log) :
        (up_log[i].kind \in {"SlackApiError", "Exception"} /\ i < max_retries) =>
            /\ Len(up_sleeps) >= i
            /\ up_sleeps[i] = retry_delay
            /\ ~(up_pc = "done" /\ Len(up_log) = i)
            /\ up_pc = "attempt" => attempt >= i

C2_Witness ==
    /\ up_pc = "done"
    /\ Len(up_log) = 3
    /\ up_log[1].kind = "SlackApiError"
    /\ up_log[2].kind = "Exception"
    /\ up_sleeps = <<retry_delay, retry_delay>>

Levels == [i \in 1..Len(samples) |-> samples[i].level]
IsMotionEvent(e) == e.type \in {"MotionStarted", "MotionEnded"}
MotionEvents == SelectSeq(events, IsMotionEvent)
ReturnedToLow ==
    \E i, j \in 1..Len(samples) :
        i < j /\ samples[i].level = 1 /\ samples[j].level = 0

\* C3: for the samples LOW, HIGH, HIGH, LOW at t0..t3 the loop emits one
\* MotionStarted at t1 (nothing on the second HIGH) and one MotionEnded at
\* t3 with duration t3 - t1; as long as no LOW follows a HIGH, no
\* MotionEnded is emitted.
C3_EdgeEvents ==
    /\ Levels = <<0>> => MotionEvents = <<>>
    /\ Levels \in {<<0, 1>>, <<0, 1, 1>>} =>
           MotionEvents = <<MotionStarted(samples[2].t, 1)>>
    /\ Levels = <<0, 1, 1, 0>> =>
           /\ MotionEvents = <<MotionStarted(samples[2].t, 1),
                               MotionEnded(samples[4].t, samples[4].t - samples[2].t)>>
           /\ motion_count = 1
    /\ ~ReturnedToLow => \A i \in 1..Len(events) : events[i].type # "MotionEnded"

C3_Witness ==
    /\ Levels = <<0, 1, 1, 0>>
    /\ Len(MotionEvents) = 2
    /\ MotionEvents[2].duration = samples[4].t - samples[2].t
    /\ samples[3].t - samples[2].t = 5
    /\ samples[4].t - samples[3].t = 6

KillFinished == ps_op = "kill_python_process" /\ ps_pc = "idle"
CheckFinished == ps_op = "check_process" /\ ps_pc = "idle"
Count(seq, x) == Cardinality({i \in 1..Len(seq) : seq[i] = x})
LastOf(seq) == seq[Len(seq)]
FirstCheckRunning ==
    Len(ps_trace) >= 3 /\ SubSeq(ps_trace, 1, 3) = <<"probe", "status", "check:True">>

\* C4: when the first check_process of kill_python_process reports the
\* process as running, the call sends exactly one SIGKILL and nothing
\* before it, then sleeps the 2 s grace period, then checks again, in that
\* order; it returns True only if a check found the process not running,
\* and False if the re-check found it running.
C4_KillWaitRecheck ==
    KillFinished =>
        /\ FirstCheckRunning =>
             /\ Len(ps_trace) >= 6
             /\ SubSeq(ps_trace, 4, 6) = <<"SIGKILL", "sleep", "probe">>
             /\ Count(ps_trace, "SIGKILL") = 1
             /\ Count(ps_trace, "sleep") = 1
             /\ ps_slept = GracePeriod
             /\ LastOf(ps_trace) = "check:True" => ps_ret = Returned(FALSE)
        /\ ps_ret = Returned(TRUE) => LastOf(ps_trace) = "check:False"

\* C5: check_process returns False for a pid that is in no process table
\* entry; kill_python_process on a process that is not running when it is
\* called (gone, or a zombie) returns True without sending SIGKILL and
\* without sleeping, every time it is called.
C5_KillStoppedIsNoOp ==
    /\ (CheckFinished /\ ps_arg # None /\ ps_entry = "gone") =>
           ps_ret = Returned(FALSE)
    /\ (KillFinished /\ ps_arg # None /\ ps_entry \in {"gone", "zombie"}) =>
           /\ ps_ret = Returned(TRUE)
           /\ Count(ps_trace, "SIGKILL") = 0
           /\ ps_slept = 0

\* C6: check_process and kill_python_process never raise: whatever the
\* argument (None included) and however the target process exits meanwhile,
\* a finished call has returned a boolean.
C6_NeverRaises ==
    (ps_op \in {"check_process", "kill_python_process"} /\ ps_pc = "idle") =>
        /\ ps_ret.kind = "value"
        /\ ps_ret.value \in BOOLEAN

\* C7: spawn_python_process returns the pid of the child when Popen
\* launched it and None when Popen raised; it never raises.
C7_SpawnReturnsPidOrNone ==
    ps_op = "spawn_python_process" =>
        /\ ps_ret.kind = "value"
        /\ ps_trace = <<"Popen:ok">> =>
             /\ ps_ret.value = next_pid - 1
             /\ ps_ret.value \in Pids
        /\ ps_trace # <<"Popen:ok">> => ps_ret.value = None

C7_Witness ==
    /\ ps_op = "spawn_python_process"
    /\ ps_trace = <<"Popen:ValueError">>
    /\ ps_ret = Returned(None)
    /\ next_pid = 2

InRange(a) == MinAngle <= a /\ a <= MaxAngle

\* The pulse stored for an in-range angle a is 1500 + a * 1000 / 90 with the
\* fraction dropped, and the angle read back is (pulse - 1500) * 90 / 1000
\* with the fraction dropped (toward zero).
TruncatedRoundTrip(a, pulse, g) ==
    /\ 90 * pulse <= 135000 + 1000 * a
    /\ 135000 + 1000 * a < 90 * (pulse + 1)
    /\ Abs(g) * 1000 <= Abs(pulse - 1500) * 90
    /\ Abs(pulse - 1500) * 90 < (Abs(g) + 1) * 1000
    /\ (g > 0 => pulse > 1500) /\ (g < 0 => pulse < 1500)

\* C8: for every integer angle in [-90, 90], get_pan() after set_pan(angle)
\* is within 1 of angle, both conversions truncating toward zero; likewise
\* for set_tilt / get_tilt.
C8_RoundTripWithinOne ==
    /\ (last_call.op = "set_pan" /\ InRange(last_call.a)) =>
           /\ Abs(get_pan - last_call.a) <= 1
           /\ TruncatedRoundTrip(last_call.a, HPulse, get_pan)
    /\ (last_call.op = "set_tilt" /\ InRange(last_call.a)) =>
           /\ Abs(get_tilt - last_call.a) <= 1
           /\ TruncatedRoundTrip(last_call.a, VPulse, get_tilt)

C8_Witness ==
    /\ last_call = Call("set_pan", 50, 0)
    /\ HPulse = 2055
    /\ get_pan = 49

\* C9: after any sequence of calls both pulses are in [500, 2500] and both
\* angles read back are in [-90, 90]; a setter called with an angle above
\* 90 stores 2500 and reads back 90, with an angle below -90 it stores 500
\* and reads back -90.
C9_PulseAndAngleBounds ==
    /\ MinPulse <= HPulse /\ HPulse <= MaxPulse
    /\ MinPulse <= VPulse /\ VPulse <= MaxPulse
    /\ InRange(get_pan) /\ InRange(get_tilt)
    /\ (last_call.op = "set_pan" /\ last_call.a > 90) => (HPulse = 2500 /\ get_pan = 90)
    /\ (last_call.op = "set_pan" /\ last_call.a < -90) => (HPulse = 500 /\ get_pan = -90)
    /\ (last_call.op = "set_tilt" /\ last_call.a > 90) => (VPulse = 2500 /\ get_tilt = 90)
    /\ (last_call.op = "set_tilt" /\ last_call.a < -90) => (VPulse = 500 /\ get_tilt = -90)

C9_Witness ==
    /\ last_call = Call("set_tilt", -400, 0)
    /\ VPulse = 500 /\ get_tilt = -90
    /\ HPulse = 2500 /\ get_pan = 90
    /\ pt_calls >= 3

\* C10: after set_pan(80), the first move_relative(pan_delta=20) brings
\* get_pan() to 90 and every further one leaves it there; get_pan() never
\* exceeds 90 and the pulse never exceeds 2500 on the way.
C10_SaturatesAt90 ==
    /\ pan80_run >= 1 => (get_pan = 90 /\ HPulse = 2500)
    /\ pan80_run >= 0 => (get_pan <= 90 /\ HPulse <= 2500)

C10_Witness ==
    /\ pan80_run = 3
    /\ last_call = Call("move_relative", 20, 0)
    /\ get_pan = 90

\* C11: redis_get(k) after redis_set(k, v), with no write to k in between,
\* returns a value equal to v and of the kind of v, for every Bool, Int,
\* Float and String v, strings whose text is a literal included.
C11_RoundTripLossless ==
    (rd_last.op = "redis_get" /\ rd_written[rd_last.key] # NoValue) =>
        /\ rd_last.result.kind = rd_written[rd_last.key].kind
        /\ rd_last.result = rd_written[rd_last.key]

\* C12: a KeyboardInterrupt at any point after GPIO.setup, during the
\* calibration countdown or during the polling loop, leads to GPIO.cleanup()
\* before the program exits.
C12_InterruptCleansUp ==
    (pir_pc = "exited" /\ gpio_setup) => gpio_cleaned

\* C13: once a process has repositioned the mount, the position is in the
\* key-value store and a utils.get_pan / utils.get_tilt made afterwards in
\* another process returns the position that was set.
C13_PositionVisibleAcrossProcesses ==
    (pt_calls > 0 /\ peer_read.op # "none" /\ peer_read.at = pt_calls) =>
        /\ \E k \in Keys : redis_store[k] # Missing
        /\ peer_read.op = "get_pan" => peer_read.result = get_pan
        /\ peer_read.op = "get_tilt" => peer_read.result = get_tilt

Constructed == pt_calls = 0 /\ last_call.op = "__init__"

\* C14 as stated: right after construction the pan axis has pulse 1500 and
\* get_pan() = 0, the tilt axis has pulse 1000 and get_tilt() = -50.
C14_InitialTiltMinus50 ==
    Constructed =>
        /\ HPulse = 1500 /\ get_pan = 0
        /\ VPulse = 1000 /\ get_tilt = -50

\* C14, amended: right after construction the pan axis has pulse 1500 and
\* get_pan() = 0, the tilt axis has pulse 1000 and get_tilt() = -45.
C14_InitialPosition ==
    Constructed =>
        /\ HPulse = 1500 /\ get_pan = 0
        /\ VPulse = 1000 /\ get_tilt = -45

C14_Witness ==
    /\ Constructed
    /\ VPulse = 1000
    /\ (VPulse - 1500) * 90 = -45 * 1000

SetterCalled == last_call.op \in {"set_pan", "set_tilt"}
\* 90 times the exact value of 1500 + angle * 1000 / 90
ExactPulseTimes90(angle) == 135000 + 1000 * angle

\* C15 as stated: the pulse a setter computes before clamping is the integer
\* nearest to 1500 + angle * 1000 / 90.
C15_PulseIsRounded ==
    SetterCalled =>
        2 * Abs(90 * raw_pulse - ExactPulseTimes90(last_call.a)) <= 90

\* C15, amended: the pulse a setter computes before clamping is
\* 1500 + angle * 1000 / 90 with its fraction dropped (truncated toward
\* zero), which is below the nearest integer whenever the fraction is
\* above one half.
C15_PulseIsTruncated ==
    SetterCalled =>
        LET x == ExactPulseTimes90(last_call.a) IN
          /\ Abs(90 * raw_pulse) <= Abs(x)
          /\ Abs(x) - Abs(90 * raw_pulse) < 90
          /\ (x >= 0 => raw_pulse >= 0) /\ (x <= 0 => raw_pulse <= 0)

C15_Witness ==
    /\ last_call = Call("set_tilt", -400, 0)
    /\ raw_pulse = -2944
    /\ VPulse = 500

\* The pulse the setter called last has stored.
StoredPulse == IF last_call.op = "set_pan" THEN HPulse ELSE VPulse

\* C16 as stated: there is an out-of-range integer angle for which the
\* setter stores a pulse different from the one it stores for that angle
\* clamped to [-90, 90] first.
C16_ClampDomainsDiffer ==
    \E a \in ServoAngles :
        /\ ~InRange(a)
        /\ (IF SetterCalled /\ last_call.a = a THEN StoredPulse ELSE SetPulse(a))
             # SetPulse(ClampAngle(a))

\* C16, amended: for every integer angle the setter stores the pulse it
\* stores for that angle clamped to [-90, 90] first: clamping the pulse and
\* clamping the degrees cannot be told apart.
C16_ClampDomainsAgree ==
    SetterCalled => StoredPulse = SetPulse(ClampAngle(last_call.a))

C16_Witness ==
    /\ last_call = Call("set_pan", 200, 0)
    /\ raw_pulse = 3722
    /\ HPulse = 2500
    /\ SetPulse(ClampAngle(200)) = 2500

\* The step on which kill_python_process returns to its caller.
KillReturns == ps_op = "kill_python_process" /\ ps_pc # "idle" /\ ps_pc' = "idle"

\* C17 as stated: kill_python_process on a running child that is never
\* reaped (its pid is still in the process table when the call returns)
\* returns True.
C17_KillUnreapedReturnsTrue ==
    [][(KillReturns /\ ps_entry = "running" /\ ProcState(ps_arg)' # "gone")
          => ps_ret' = Returned(TRUE)]_vars

\* C17: when the status lookup of check_process finds a zombie,
\* check_process returns False; a kill_python_process whose check finds the
\* zombie returns True, after the grace period when that check is the
\* re-check, and the pid is still in the process table.
C17_ZombieNotRunning ==
    [][(ps_pc = "chk_status" /\ ps_trace' # ps_trace /\ ProcState(ps_arg) = "zombie")
          => /\ ps_pc' = "idle"
             /\ ProcState(ps_arg)' = "zombie"
             /\ ps_op = "check_process" => ps_ret' = Returned(FALSE)
             /\ ps_op = "kill_python_process" =>
                   /\ ps_ret' = Returned(TRUE)
                   /\ chk_caller = "kill_recheck" => ps_slept' = GracePeriod]_vars

C17_Witness ==
    /\ KillFinished
    /\ ps_entry = "running"
    /\ ps_trace = <<"probe", "status", "check:True", "SIGKILL", "sleep",
                    "probe", "status", "check:False">>
    /\ ps_slept = GracePeriod
    /\ ps_ret = Returned(TRUE)
    /\ procs[ps_arg] = "zombie"

IsEnded(e) == e.type = "MotionEnded"
IsWarning(e) == e.type = "CalibrationWarning"
IsStarted(e) == e.type = "MotionStarted"

\* The first HIGH sample taken after time t, if there is one.
FirstHighAfter(t) ==
    {j \in 1..Len(samples) :
        /\ samples[j].t > t /\ samples[j].level = 1
        /\ \A k \in 1..(j - 1) : samples[k].t > t => samples[k].level = 0}

\* C18: a MotionEnded is followed by a CalibrationWarning exactly when its
\* duration is strictly greater than 10 s (none at exactly 10 s), a warning
\* only ever follows such a MotionEnded, after a warning the loop is IDLE
\* and still sampling, and the next HIGH sample starts a new pulse.
C18_WarningIffOver10 ==
    /\ \A i \in 1..Len(events) :
         IsEnded(events[i]) =>
            (events[i].duration > 10
               <=> (i < Len(events) /\ IsWarning(events[i + 1])))
    /\ \A i \in 1..Len(events) :
         IsWarning(events[i]) =>
            /\ i > 1 /\ IsEnded(events[i - 1]) /\ events[i - 1].duration > 10
            /\ events[i - 1].t = events[i].t
            /\ i = Len(events) => previous_state = 0 /\ pir_exit \in {"none", "normal"}
            /\ \A j \in FirstHighAfter(events[i].t) :
                  /\ i < Len(events)
                  /\ events[i + 1] = MotionStarted(samples[j].t, events[i - 2].n + 1)

C18_Witness ==
    /\ Levels = <<1, 1, 0, 1>>
    /\ Len(events) = 4
    /\ events[2] = MotionEnded(samples[3].t, 11)
    /\ events[3] = CalibrationWarning(samples[3].t)
    /\ events[4] = MotionStarted(samples[4].t, 2)
    /\ pir_pc = "polling"

\* LOW-to-HIGH edges among consecutive samples, a HIGH first sample included.
RisingEdges ==
    Cardinality({i \in 1..Len(samples) :
        samples[i].level = 1 /\ (i = 1 \/ samples[i - 1].level = 0)})

AlternationInv ==
    /\ Len(SelectSeq(events, IsStarted)) - Len(SelectSeq(events, IsEnded))
          = previous_state
    /\ motion_count = Len(SelectSeq(events, IsStarted))
    /\ motion_count = RisingEdges
    /\ \A i \in 1..Len(MotionEvents) :
          MotionEvents[i].type = IF i % 2 = 1 THEN "MotionStarted" ELSE "MotionEnded"

SampleAtCurrentLevel ==
    /\ Len(samples') = Len(samples) + 1
    /\ samples'[Len(samples')].level = previous_state

\* C19: MotionStarted and MotionEnded alternate, beginning with
\* MotionStarted; started minus ended is 0 in IDLE and 1 in ACTIVE; the
\* pulse counter is the number of MotionStarted events and of LOW-to-HIGH
\* edges (a HIGH first sample included); a sample at the current state's
\* level changes nothing.
C19_StrictAlternation ==
    /\ []AlternationInv
    /\ [][SampleAtCurrentLevel =>
            UNCHANGED <<events, motion_count, previous_state, high_start>>]_vars

C19_Witness ==
    /\ Levels = <<1, 1, 0, 0, 1>>
    /\ motion_count = 2
    /\ previous_state = 1
    /\ Len(MotionEvents) = 3

\* C20: whenever the process is not running at the moment
\* kill_python_process returns, the result is True (False only for a
\* process that is still running).
C20_FalseOnlyWhenRunning ==
    [][(KillReturns /\ ps_arg # None /\ ProcState(ps_arg)' # "running")
          => ps_ret' = Returned(TRUE)]_vars

\* The step on which a move_relative call is made.
MoveRelativeCalled == pt_calls' = pt_calls + 1 /\ last_call'.op = "move_relative"

\* C21: a move_relative with pan_delta >= 1 from get_pan() < 90 strictly
\* increases get_pan(), one with pan_delta <= -1 from get_pan() > -90
\* strictly decreases it, and likewise tilt_delta and get_tilt().
C21_RelativeMovesProgress ==
    [][MoveRelativeCalled =>
          /\ (last_call'.a >= 1 /\ get_pan < MaxAngle) => get_pan' > get_pan
          /\ (last_call'.a <= -1 /\ get_pan > MinAngle) => get_pan' < get_pan
          /\ (last_call'.b >= 1 /\ get_tilt < MaxAngle) => get_tilt' > get_tilt
          /\ (last_call'.b <= -1 /\ get_tilt > MinAngle) => get_tilt' < get_tilt]_vars

AllInit == UploadInit /\ PirInit /\ SupInit /\ PanTiltInit /\ RedisInit /\ PeerInit

SpecUpload == AllInit /\ [][UploadNext]_vars

SpecPir == AllInit /\ [][PirNext]_vars

SpecSupervisor == AllInit /\ [][SupNext]_vars

SpecPanTilt == AllInit /\ [][PanTiltNext]_vars

SpecServo == AllInit /\ [][ServoNext]_vars
SpecRedis == AllInit /\ [][RedisNext]_vars
SpecShared == AllInit /\ [][SharedNext]_vars
====
